---- MODULE Spec2Model ----
(***************************************************************************)
(* Model of traceLib: the tracing initializers InitTracerProvider and      *)
(* InitTracer, their helpers newExporter and newTraceProvider, and the     *)
(* HTTP middleware ExtractTraceInfoMiddleware.                             *)
(*                                                                         *)
(* The OpenTelemetry globals (otel.SetTracerProvider,                      *)
(* otel.SetTextMapPropagator, otel.GetTextMapPropagator) are the process   *)
(* state.  Outcomes the library cannot decide (whether jaeger.New or       *)
(* resource.Merge fails) are chosen nondeterministically.                  *)
(***************************************************************************)
EXTENDS Integers, Sequences, FiniteSets, TLC

VARIABLES
    env,          \* value of the environment variable JAEGER_ADDRESS
    globalTP,     \* otel global tracer provider: provider id, 0 = SDK default
    globalProp,   \* otel global text-map propagator
    provs,        \* every sdktrace.TracerProvider constructed so far
    nexp,         \* number of jaeger exporters constructed so far
    regs,         \* the providers passed to otel.SetTracerProvider, in order
    handles,      \* tracer handles obtained so far
    lastCall,     \* the most recent initializer call, as its caller saw it
    lastReq       \* the most recent request through the middleware

vars == <<env, globalTP, globalProp, provs, nexp, regs, handles, lastCall, lastReq>>

----------------------------------------------------------------------------
(* Bounds *)

MaxExporters == 2      \* exporters (hence providers) constructed in one behaviour
MaxHandles == 2        \* tracer handles the caller obtains on its own

----------------------------------------------------------------------------
(* Values *)

ServiceNames == {"checkout-svc", "cart-svc"}
JaegerAddr == "http://localhost:14268/api/traces"
Addrs == {"", JaegerAddr}

NoErr == "nil"
ErrMissingEnv == "couldn't read .env variables for JAEGER_ADDRESS. Please check if you provided it correctly"
ErrJaeger == "jaeger.New error"
ErrMerge == "resource.Merge error"

NoopPropagator == "noop"
TraceContext == "propagation.TraceContext"

DefaultTP == 0         \* the SDK's default global provider, before any SetTracerProvider
NoTrace == "no-trace"  \* a context without a valid span context

T1 == "4bf92f3577b34da6a3ce929d0e0e4736"
T2 == "0af7651916cd43dd8448eb211c80319c"
ZeroT == "00000000000000000000000000000000"
S1 == "00f067aa0ba902b7"
ZeroS == "0000000000000000"
HexTraceIDs == {T1, T2, ZeroT}
HexSpanIDs == {S1, ZeroS}
HexFlags == {"00", "01"}

\* The traceparent header value split at "-"; <<>> is a request without the header.
NoHeader == <<>>
ValidHeaders == { <<"00", T1, S1, "01">>, <<"00", T2, S1, "00">> }
MalformedHeaders ==
    { <<"00", ZeroT, S1, "01">>,      \* all-zero trace id
      <<"00", T1, ZeroS, "01">>,      \* all-zero span id
      <<"ff", T1, S1, "01">>,         \* forbidden version
      <<"00", T1, S1>>,               \* missing flags
      <<"00", "not-hex", S1, "01">> } \* trace id is not hex
Headers == {NoHeader} \cup ValidHeaders \cup MalformedHeaders

Writers == {"w1", "w2"}
CtxValues == {"request-id"}   \* request-scoped values already in r.Context()

NilResult == [kind |-> "nil", provider |-> 0, name |-> "", reg |-> 0]
ProviderResult(tp) == [kind |-> "provider", provider |-> tp, name |-> "", reg |-> 0]
TracerResult(h) == [kind |-> "tracer", provider |-> h.provider, name |-> h.name, reg |-> h.reg]

----------------------------------------------------------------------------
(* The process state the helpers thread through one call *)

World == [tp |-> globalTP, prop |-> globalProp, provs |-> provs,
          nexp |-> nexp, regs |-> regs, steps |-> <<>>]

Step(W, s) == [W EXCEPT !.steps = Append(@, s)]

NilExporter == [id |-> 0, addr |-> ""]

----------------------------------------------------------------------------
(* newExporter: read JAEGER_ADDRESS, fail when it is empty, otherwise build *)
(* the jaeger exporter and hand jaeger.New's error through.  jerr is        *)
(* whether jaeger.New fails.                                                *)

newExporter_NoEnvCheck(W, addr, jerr) ==
    IF jerr
    THEN [W |-> Step(W, "jaeger.New"), exp |-> NilExporter, err |-> ErrJaeger]
    ELSE [W |-> [Step(W, "jaeger.New") EXCEPT !.nexp = @ + 1],
          exp |-> [id |-> W.nexp + 1, addr |-> addr], err |-> NoErr]

newExporter_InvertedCheck(W, addr, jerr) ==
    IF addr # ""
    THEN [W |-> W, exp |-> NilExporter, err |-> ErrMissingEnv]
    ELSE IF jerr
    THEN [W |-> Step(W, "jaeger.New"), exp |-> NilExporter, err |-> ErrJaeger]
    ELSE [W |-> [Step(W, "jaeger.New") EXCEPT !.nexp = @ + 1],
          exp |-> [id |-> W.nexp + 1, addr |-> addr], err |-> NoErr]

newExporter(W, addr, jerr) ==
    IF addr = ""
    THEN [W |-> W, exp |-> NilExporter, err |-> ErrMissingEnv]
    ELSE IF jerr
    THEN [W |-> Step(W, "jaeger.New"), exp |-> NilExporter, err |-> ErrJaeger]
    ELSE [W |-> [Step(W, "jaeger.New") EXCEPT !.nexp = @ + 1],
          exp |-> [id |-> W.nexp + 1, addr |-> addr], err |-> NoErr]

(* newTraceProvider: merge the default resource with service.name, panic    *)
(* when the merge fails (merr), otherwise construct a provider that batches *)
(* to exp.                                                                  *)

NewProvider(exp, serviceName) ==
    [serviceName |-> serviceName, exporter |-> exp,
     shutdownBy |-> "none", origin |-> "none"]

newTraceProvider_IgnoreMergeErr(W, exp, serviceName, merr) ==
    [W |-> [Step(W, "NewTracerProvider") EXCEPT
                !.provs = Append(@, NewProvider(exp, serviceName))],
     tp |-> Len(W.provs) + 1, panicked |-> FALSE]

newTraceProvider(W, exp, serviceName, merr) ==
    IF merr
    THEN [W |-> Step(W, "panic"), tp |-> 0, panicked |-> TRUE]
    ELSE [W |-> [Step(W, "NewTracerProvider") EXCEPT
                     !.provs = Append(@, NewProvider(exp, serviceName))],
          tp |-> Len(W.provs) + 1, panicked |-> FALSE]

(* otel.SetTracerProvider(tp): tp becomes the process-wide provider. *)
SetTracerProvider(W, tp) ==
    [Step(W, "SetTracerProvider") EXCEPT !.tp = tp, !.regs = Append(@, tp)]

(* otel.SetTextMapPropagator(p): p becomes the process-wide propagator. *)
SetTextMapPropagator(W, p) ==
    [Step(W, "SetTextMapPropagator") EXCEPT !.prop = p]

(* tp.Shutdown(ctx): the provider stops accepting spans; a second Shutdown  *)
(* changes nothing.                                                         *)
Shutdown(W, tp, who) ==
    [Step(W, "Shutdown") EXCEPT
        !.provs[tp].shutdownBy = IF @ = "none" THEN who ELSE @]

(* Remember which initializer built the provider. *)
BuiltBy(W, tp, op) == [W EXCEPT !.provs[tp].origin = op]

Returned(W, result, err) ==
    [W |-> W, result |-> result, err |-> err, outcome |-> "returned"]
Panicked(W) ==
    [W |-> W, result |-> NilResult, err |-> ErrMerge, outcome |-> "panicked"]

(* tp.Tracer(name): a tracer handle of provider tp.  reg is the number of   *)
(* SetTracerProvider calls made before the handle was obtained.             *)
Tracer(W, tp, name, via) ==
    [name |-> name, provider |-> tp, reg |-> Len(W.regs), via |-> via]

----------------------------------------------------------------------------
(* InitTracerProvider(serviceName)                                          *)

InitTracerProviderBody_EagerShutdown(W, addr, serviceName, jerr, merr) ==
    LET e == newExporter(W, addr, jerr) IN
    IF e.err # NoErr THEN Returned(e.W, NilResult, e.err)
    ELSE
    LET p == newTraceProvider(e.W, e.exp, serviceName, merr) IN
    IF p.panicked THEN Panicked(p.W)
    ELSE
    LET w1 == BuiltBy(p.W, p.tp, "InitTracerProvider")
        w2 == SetTracerProvider(w1, p.tp)
        w3 == SetTextMapPropagator(w2, TraceContext)
        w4 == Shutdown(w3, p.tp, "library")
    IN Returned(w4, ProviderResult(p.tp), NoErr)

InitTracerProviderBody_NoPropagator(W, addr, serviceName, jerr, merr) ==
    LET e == newExporter(W, addr, jerr) IN
    IF e.err # NoErr THEN Returned(e.W, NilResult, e.err)
    ELSE
    LET p == newTraceProvider(e.W, e.exp, serviceName, merr) IN
    IF p.panicked THEN Panicked(p.W)
    ELSE
    LET w1 == BuiltBy(p.W, p.tp, "InitTracerProvider")
        w2 == SetTracerProvider(w1, p.tp)
    IN Returned(w2, ProviderResult(p.tp), NoErr)

InitTracerProviderBody(W, addr, serviceName, jerr, merr) ==
    LET e == newExporter(W, addr, jerr) IN
    IF e.err # NoErr THEN Returned(e.W, NilResult, e.err)
    ELSE
    LET p == newTraceProvider(e.W, e.exp, serviceName, merr) IN
    IF p.panicked THEN Panicked(p.W)
    ELSE
    LET w1 == BuiltBy(p.W, p.tp, "InitTracerProvider")
        w2 == SetTracerProvider(w1, p.tp)
        w3 == SetTextMapPropagator(w2, TraceContext)
    IN Returned(w3, ProviderResult(p.tp), NoErr)

----------------------------------------------------------------------------
(* InitTracer(serviceName).  The deferred tp.Shutdown runs when the         *)
(* function returns, after the return values are set and before the caller  *)
(* resumes.  The copy in package tracer has the same statements.            *)

InitTracerBody_NoShutdown(W, addr, serviceName, jerr, merr) ==
    LET e == newExporter(W, addr, jerr) IN
    IF e.err # NoErr THEN Returned(e.W, NilResult, e.err)
    ELSE
    LET p == newTraceProvider(e.W, e.exp, serviceName, merr) IN
    IF p.panicked THEN Panicked(p.W)
    ELSE
    LET w1 == BuiltBy(p.W, p.tp, "InitTracer")
        w2 == SetTracerProvider(w1, p.tp)
        tracer == Tracer(w2, p.tp, serviceName, "InitTracer")
        w3 == SetTextMapPropagator(Step(w2, "Tracer"), TraceContext)
    IN Returned(w3, TracerResult(tracer), NoErr)

InitTracerBody_RegisterFirst(W, addr, serviceName, jerr, merr) ==
    LET w0 == SetTextMapPropagator(W, TraceContext)
        e == newExporter(w0, addr, jerr) IN
    IF e.err # NoErr THEN Returned(e.W, NilResult, e.err)
    ELSE
    LET p == newTraceProvider(e.W, e.exp, serviceName, merr) IN
    IF p.panicked THEN Panicked(p.W)
    ELSE
    LET w1 == BuiltBy(p.W, p.tp, "InitTracer")
        w2 == SetTracerProvider(w1, p.tp)
        tracer == Tracer(w2, p.tp, serviceName, "InitTracer")
        w3 == Step(w2, "Tracer")
        w4 == Shutdown(w3, p.tp, "library")
    IN Returned(w4, TracerResult(tracer), NoErr)

InitTracerBody_TracerBeforeSet(W, addr, serviceName, jerr, merr) ==
    LET e == newExporter(W, addr, jerr) IN
    IF e.err # NoErr THEN Returned(e.W, NilResult, e.err)
    ELSE
    LET p == newTraceProvider(e.W, e.exp, serviceName, merr) IN
    IF p.panicked THEN Panicked(p.W)
    ELSE
    LET w1 == BuiltBy(p.W, p.tp, "InitTracer")
        w2 == SetTracerProvider(Step(w1, "Tracer"), p.tp)
        tracer == Tracer(w2, w1.tp, serviceName, "InitTracer")
        w3 == SetTextMapPropagator(w2, TraceContext)
        w4 == Shutdown(w3, p.tp, "library")
    IN Returned(w4, TracerResult(tracer), NoErr)

InitTracerBody(W, addr, serviceName, jerr, merr) ==
    LET e == newExporter(W, addr, jerr) IN
    IF e.err # NoErr THEN Returned(e.W, NilResult, e.err)
    ELSE
    LET p == newTraceProvider(e.W, e.exp, serviceName, merr) IN
    IF p.panicked THEN Panicked(p.W)
    ELSE
    LET w1 == BuiltBy(p.W, p.tp, "InitTracer")
        w2 == SetTracerProvider(w1, p.tp)
        tracer == Tracer(w2, p.tp, serviceName, "InitTracer")
        w3 == SetTextMapPropagator(Step(w2, "Tracer"), TraceContext)
        w4 == Shutdown(w3, p.tp, "library")
    IN Returned(w4, TracerResult(tracer), NoErr)

----------------------------------------------------------------------------
(* ExtractTraceInfoMiddleware                                               *)

InvalidSpanContext == [valid |-> FALSE, traceID |-> NoTrace]

(* propagation.TraceContext reading the traceparent header: four fields,    *)
(* version 00, hex trace id and span id that are not all zero, hex flags.   *)
ParseTraceParent(h) ==
    IF Len(h) # 4 THEN InvalidSpanContext
    ELSE IF h[1] # "00" THEN InvalidSpanContext
    ELSE IF h[2] \notin HexTraceIDs \/ h[2] = ZeroT THEN InvalidSpanContext
    ELSE IF h[3] \notin HexSpanIDs \/ h[3] = ZeroS THEN InvalidSpanContext
    ELSE IF h[4] \notin HexFlags THEN InvalidSpanContext
    ELSE [valid |-> TRUE, traceID |-> h[2]]

(* prop.Extract(ctx, carrier): the no-op propagator returns ctx; the        *)
(* trace-context propagator returns ctx with the header's span context when *)
(* the header parses, and ctx otherwise.                                    *)
Extract(prop, ctx, header) ==
    IF prop = TraceContext
    THEN LET sc == ParseTraceParent(header) IN
         IF sc.valid THEN [ctx EXCEPT !.trace = sc.traceID] ELSE ctx
    ELSE ctx

(* What one pass of the wrapped handler does: the calls it makes to next    *)
(* and what it writes to the ResponseWriter itself.                         *)
Middleware_RejectBadHeader(prop, w, r) ==
    LET ctx == Extract(prop, r.ctx, r.header) IN
    IF ctx.trace = NoTrace
    THEN [nextCalls |-> <<>>, written |-> <<[w |-> w, status |-> 400]>>]
    ELSE [nextCalls |-> <<[w |-> w, r |-> [r EXCEPT !.ctx = ctx]]>>,
          written |-> <<>>]

Middleware_DropContext(prop, w, r) ==
    LET ctx == Extract(prop, r.ctx, r.header) IN
    [nextCalls |-> <<[w |-> w, r |-> r]>>, written |-> <<>>]

Middleware(prop, w, r) ==
    LET ctx == Extract(prop, r.ctx, r.header) IN
    [nextCalls |-> <<[w |-> w, r |-> [r EXCEPT !.ctx = ctx]]>>,
     written |-> <<>>]

----------------------------------------------------------------------------
(* Initial state: a fresh process.  The otel globals are the SDK defaults.  *)

NoCall ==
    [op |-> "none", serviceName |-> "", addr |-> "", jerr |-> FALSE,
     merr |-> FALSE, result |-> NilResult, err |-> NoErr, outcome |-> "none",
     steps |-> <<>>, preTP |-> DefaultTP, preProp |-> NoopPropagator,
     preProvs |-> 0, preExp |-> 0]

NoRequest ==
    [w |-> "", r |-> [header |-> NoHeader, ctx |-> [value |-> "", trace |-> NoTrace], body |-> ""],
     prop |-> NoopPropagator, nextCalls |-> <<>>, written |-> <<>>]

Init ==
    /\ env \in Addrs
    /\ globalTP = DefaultTP
    /\ globalProp = NoopPropagator
    /\ provs = <<>>
    /\ nexp = 0
    /\ regs = <<>>
    /\ handles = {}
    /\ lastCall = NoCall
    /\ lastReq = NoRequest

----------------------------------------------------------------------------
(* Actions *)

\* The deployment (or a test) sets or clears JAEGER_ADDRESS.
Setenv ==
    /\ \E a \in Addrs : a # env /\ env' = a
    /\ UNCHANGED <<globalTP, globalProp, provs, nexp, regs, handles, lastCall, lastReq>>

\* The effect of one initializer call on the process, and what its caller saw.
Call(op, serviceName, jerr, merr, c) ==
    /\ c.W.nexp <= MaxExporters
    /\ Len(c.W.provs) <= MaxExporters
    /\ globalTP' = c.W.tp
    /\ globalProp' = c.W.prop
    /\ provs' = c.W.provs
    /\ nexp' = c.W.nexp
    /\ regs' = c.W.regs
    /\ handles' = IF c.result.kind = "tracer"
                  THEN handles \cup {[name |-> c.result.name, provider |-> c.result.provider,
                                      reg |-> c.result.reg, via |-> "InitTracer"]}
                  ELSE handles
    /\ lastCall' = [op |-> op, serviceName |-> serviceName, addr |-> env,
                    jerr |-> jerr, merr |-> merr, result |-> c.result,
                    err |-> c.err, outcome |-> c.outcome, steps |-> c.W.steps,
                    preTP |-> globalTP, preProp |-> globalProp,
                    preProvs |-> Len(provs), preExp |-> nexp]
    /\ UNCHANGED <<env, lastReq>>

InitTracerProvider ==
    \E serviceName \in ServiceNames, jerr \in BOOLEAN, merr \in BOOLEAN :
        Call("InitTracerProvider", serviceName, jerr, merr,
             InitTracerProviderBody(World, env, serviceName, jerr, merr))

InitTracer ==
    \E serviceName \in ServiceNames, jerr \in BOOLEAN, merr \in BOOLEAN :
        Call("InitTracer", serviceName, jerr, merr,
             InitTracerBody(World, env, serviceName, jerr, merr))

\* The caller's own tp.Shutdown on a provider InitTracerProvider returned.
CallerShutdown ==
    \E tp \in 1..Len(provs) :
        /\ provs[tp].origin = "InitTracerProvider"
        /\ provs[tp].shutdownBy = "none"
        /\ provs' = Shutdown(World, tp, "caller").provs
        /\ UNCHANGED <<env, globalTP, globalProp, nexp, regs, handles, lastCall, lastReq>>

\* otel.Tracer(name) somewhere in the process: a handle of the global provider.
GlobalTracer ==
    \E name \in ServiceNames :
        /\ Cardinality({h \in handles : h.via = "global"}) < MaxHandles
        /\ handles' = handles \cup {Tracer(World, globalTP, name, "global")}
        /\ UNCHANGED <<env, globalTP, globalProp, provs, nexp, regs, lastCall, lastReq>>

\* One inbound request through the wrapped handler.  The server hands the
\* request over with a context that carries no span context.
ServeHTTP ==
    \E w \in Writers, header \in Headers, value \in CtxValues :
        LET r == [header |-> header, ctx |-> [value |-> value, trace |-> NoTrace],
                  body |-> "body"]
            m == Middleware(globalProp, w, r)
        IN /\ lastReq' = [w |-> w, r |-> r, prop |-> globalProp,
                          nextCalls |-> m.nextCalls, written |-> m.written]
           /\ UNCHANGED <<env, globalTP, globalProp, provs, nexp, regs, handles, lastCall>>

\* Initialization and teardown of the process.
Next ==
    \/ Setenv
    \/ InitTracerProvider
    \/ InitTracer
    \/ CallerShutdown

Spec == Init /\ [][Next]_vars

\* Initialization together with tracer handles taken from the global provider.
NextTracers ==
    \/ Setenv
    \/ InitTracerProvider
    \/ InitTracer
    \/ GlobalTracer

SpecTracers == Init /\ [][NextTracers]_vars

\* Initialization together with requests served through the middleware.
NextHTTP ==
    \/ Setenv
    \/ InitTracerProvider
    \/ InitTracer
    \/ ServeHTTP

SpecHTTP == Init /\ [][NextHTTP]_vars

----------------------------------------------------------------------------
(* Properties *)

IsInit == lastCall.op \in {"InitTracerProvider", "InitTracer"}
Succeeded == IsInit /\ lastCall.outcome = "returned" /\ lastCall.err = NoErr
Failed == IsInit /\ lastCall.outcome = "returned" /\ lastCall.err # NoErr
Served == lastReq.w # ""
Has(steps, s) == \E i \in 1..Len(steps) : steps[i] = s
Before(steps, a, b) ==
    \E i, j \in 1..Len(steps) : i < j /\ steps[i] = a /\ steps[j] = b

\* C1: with JAEGER_ADDRESS empty, both initializers return the configuration
\* error and a nil provider/tracer, and construct no exporter and no provider.
C1_MissingAddressFails ==
    (IsInit /\ lastCall.addr = "") =>
        /\ lastCall.outcome = "returned"
        /\ lastCall.err = ErrMissingEnv
        /\ lastCall.result = NilResult
        /\ ~Has(lastCall.steps, "jaeger.New")
        /\ ~Has(lastCall.steps, "NewTracerProvider")
        /\ nexp = lastCall.preExp
        /\ Len(provs) = lastCall.preProvs

C1_Witness ==
    /\ lastCall.op = "InitTracer" /\ lastCall.addr = ""
    /\ lastCall.err = ErrMissingEnv
    /\ Len(provs) = 1

\* C2: a successful InitTracer returns one tracer named after the service, and
\* tp.Shutdown has run after SetTracerProvider and Tracer, so the registered
\* provider the tracer belongs to is already shut down when the caller resumes.
C2_InitTracerShutsDown ==
    (Succeeded /\ lastCall.op = "InitTracer") =>
        /\ lastCall.result.kind = "tracer"
        /\ lastCall.result.name = lastCall.serviceName
        /\ Before(lastCall.steps, "SetTracerProvider", "Shutdown")
        /\ Before(lastCall.steps, "Tracer", "Shutdown")
        /\ lastCall.steps[Len(lastCall.steps)] = "Shutdown"
        /\ globalTP = lastCall.result.provider
        /\ provs[globalTP].shutdownBy = "library"

C2_Witness ==
    /\ Succeeded /\ lastCall.op = "InitTracer"
    /\ lastCall.result.provider = 2
    /\ provs[2].shutdownBy = "library"

\* C3: after a successful initializer call the global provider is the provider
\* that call built (the one returned, or the one the returned tracer came
\* from) and the global propagator is the trace-context propagator.
C3_GlobalsInstalled ==
    Succeeded =>
        /\ globalTP = lastCall.result.provider
        /\ globalTP = lastCall.preProvs + 1
        /\ globalTP = Len(provs)
        /\ provs[globalTP].origin = lastCall.op
        /\ globalProp = TraceContext

C3_Witness ==
    /\ Succeeded /\ lastCall.op = "InitTracerProvider"
    /\ lastCall.preTP = 1 /\ globalTP = 2
    /\ globalProp = TraceContext

\* C7: a provider built by InitTracerProvider is never shut down by the
\* library; it is live until the caller's own Shutdown.
C7_ProviderLeftLive ==
    \A tp \in 1..Len(provs) :
        provs[tp].origin = "InitTracerProvider" =>
            provs[tp].shutdownBy \in {"none", "caller"}

C7_Witness ==
    /\ Len(provs) = 2
    /\ provs[1].origin = "InitTracerProvider" /\ provs[1].shutdownBy = "none"
    /\ provs[2].origin = "InitTracer" /\ provs[2].shutdownBy = "library"

\* C8: with a non-empty JAEGER_ADDRESS, jaeger.New succeeding and the resource
\* merge succeeding, both initializers return a non-nil provider/tracer and a
\* nil error; every return has exactly one of result and error non-nil.
C8_ValidAddressSucceeds ==
    /\ (IsInit /\ lastCall.addr # "" /\ ~lastCall.jerr /\ ~lastCall.merr) =>
            /\ lastCall.outcome = "returned"
            /\ lastCall.result.kind # "nil"
            /\ lastCall.result.provider \in 1..Len(provs)
            /\ lastCall.err = NoErr
    /\ (IsInit /\ lastCall.outcome = "returned") =>
            ((lastCall.result.kind = "nil") <=> (lastCall.err # NoErr))

C8_Witness ==
    /\ Succeeded /\ lastCall.op = "InitTracer"
    /\ lastCall.addr = JaegerAddr /\ lastCall.serviceName = "cart-svc"
    /\ lastCall.result.kind = "tracer"

\* C9: a failed resource merge makes the initializer panic instead of
\* returning, before any provider is constructed or any global is registered.
C9_MergeFailurePanics ==
    /\ (IsInit /\ lastCall.addr # "" /\ ~lastCall.jerr /\ lastCall.merr) =>
            /\ lastCall.outcome = "panicked"
            /\ ~Has(lastCall.steps, "SetTracerProvider")
            /\ ~Has(lastCall.steps, "SetTextMapPropagator")
            /\ globalTP = lastCall.preTP
            /\ globalProp = lastCall.preProp
            /\ Len(provs) = lastCall.preProvs
    /\ (IsInit /\ lastCall.outcome = "returned") => lastCall.err # ErrMerge

C9_Witness ==
    /\ lastCall.op = "InitTracerProvider" /\ lastCall.outcome = "panicked"
    /\ lastCall.merr
    /\ globalTP = DefaultTP /\ globalProp = NoopPropagator

\* C10: an initializer call that returns an error (missing address, or the
\* error of jaeger.New handed through) leaves the global provider and the
\* global propagator as they were before the call.
C10_FailureKeepsGlobals ==
    Failed =>
        /\ globalTP = lastCall.preTP
        /\ globalProp = lastCall.preProp
        /\ lastCall.err = (IF lastCall.addr = "" THEN ErrMissingEnv ELSE ErrJaeger)
        /\ ~Has(lastCall.steps, "SetTracerProvider")
        /\ ~Has(lastCall.steps, "SetTextMapPropagator")

C10_Witness ==
    /\ Failed /\ lastCall.err = ErrJaeger
    /\ lastCall.preTP = 1 /\ globalTP = 1
    /\ globalProp = TraceContext

\* C4 as stated: every request with a valid traceparent header reaches the
\* next handler with the header's trace id in its context.
C4_RoundTripAlways ==
    (Served /\ lastReq.r.header \in ValidHeaders) =>
        /\ Len(lastReq.nextCalls) = 1
        /\ lastReq.nextCalls[1].r.ctx.trace = lastReq.r.header[2]

\* C4 amended: the round trip holds for requests handled while the global
\* propagator is the trace-context propagator, that is after a successful
\* initializer call; the middleware extracts with whatever propagator is
\* registered, and under the default no-op propagator the context handed on
\* carries no trace id.
C4_RoundTripOnceRegistered ==
    /\ (globalProp = TraceContext) <=> (regs # <<>>)
    /\ (Served /\ lastReq.r.header \in ValidHeaders) =>
        /\ Len(lastReq.nextCalls) = 1
        /\ lastReq.prop = TraceContext =>
               lastReq.nextCalls[1].r.ctx.trace = lastReq.r.header[2]
        /\ lastReq.prop = NoopPropagator =>
               lastReq.nextCalls[1].r.ctx.trace = NoTrace

C4_Witness ==
    /\ Served /\ lastReq.r.header = <<"00", T2, S1, "00">>
    /\ lastReq.prop = TraceContext
    /\ lastReq.nextCalls[1].r.ctx.trace = T2

\* C5 as stated: one provider instance is behind every tracer handle obtained.
C5_OneProviderBehindAllHandles ==
    \A h1, h2 \in handles : h1.provider = h2.provider

\* C5 amended: a handle references the provider registered most recently when
\* it was obtained, and every successful initializer call registers a new
\* instance; two handles share a provider exactly when no successful
\* initializer call lies between them.
C5_SameProviderBetweenRegistrations ==
    /\ \A i, j \in 1..Len(regs) : i # j => regs[i] # regs[j]
    /\ \A h \in handles :
           h.provider = (IF h.reg = 0 THEN DefaultTP ELSE regs[h.reg])
    /\ \A h1, h2 \in handles :
           (h1.reg = h2.reg) <=> (h1.provider = h2.provider)

C5_Witness ==
    \E h1, h2, h3 \in handles :
        /\ h1.via = "InitTracer" /\ h2.via = "global"
        /\ h1.name = h2.name /\ h1.reg = h2.reg /\ h1.provider = h2.provider
        /\ h3.name = h1.name /\ h3.reg # h1.reg /\ h3.provider # h1.provider
        /\ h3.provider # DefaultTP

\* C6: every request, with valid, malformed or absent tracing headers, is
\* handed to next exactly once, with the same ResponseWriter and the same
\* request rebound to the derived context; the middleware writes nothing; a
\* request without a valid traceparent header goes on with no active trace.
C6_AlwaysForwards ==
    Served =>
        /\ Len(lastReq.nextCalls) = 1
        /\ lastReq.nextCalls[1].w = lastReq.w
        /\ lastReq.nextCalls[1].r =
               [lastReq.r EXCEPT !.ctx = lastReq.nextCalls[1].r.ctx]
        /\ lastReq.nextCalls[1].r.ctx.value = lastReq.r.ctx.value
        /\ lastReq.written = <<>>
        /\ lastReq.r.header \notin ValidHeaders =>
               lastReq.nextCalls[1].r.ctx.trace = NoTrace

C6_Witness ==
    /\ Served /\ lastReq.r.header = <<"00", ZeroT, S1, "01">>
    /\ lastReq.prop = TraceContext
    /\ Len(lastReq.nextCalls) = 1
    /\ lastReq.nextCalls[1].r.ctx.trace = NoTrace

====
